---- MODULE Spec2Model ----
(***************************************************************************)
(* THINK module of the Proactive AIoT Assistant: the policy validator      *)
(* (SafetyChecker.is_action_safe), the proactivity throttle                *)
(* (ProactivityBudget.allow) and the arbitration pipeline                  *)
(* (ThinkOrchestrator.process_context) with the reasoner client            *)
(* (LangchainLLMClient.pass2_structured), the rule engine                  *)
(* (DecisionGraph.candidates_from_context), the memory store's read and    *)
(* write (ChromaStore), the feedback method (store_user_confirmation) and  *)
(* the service around the orchestrator (startup_event and the endpoint).   *)
(*                                                                         *)
(* Python strings whose characters matter (device ids, parameter values,   *)
(* format tokens) are sequences of symbols; a symbol is one character or   *)
(* one indivisible word.  Python values of type Any are tagged records.    *)
(***************************************************************************)
EXTENDS Integers, Sequences, FiniteSets, TLC

VARIABLES
    clock,                \* the wall clock datetime.utcnow() reads, in minutes
    cooldown_threshold,   \* ProactivityBudget.cooldown_threshold, in minutes
    last_suggestion_time, \* ProactivityBudget.last_suggestion_time (NoTime = None)
    allowObs,             \* the latest allow() call: its clock reading, the state before, its result
    lastGranted,          \* history: clock reading of the latest allow() that returned True
    pc,                   \* per request: where its process_context coroutine is suspended
    ctx,                  \* per request: its ContextPacket, enriched in place
    candidates,           \* per request: the rule engine's candidates, until pass 1 has ended
    memory_read,          \* per request: how the memory store answered the read, until pass 1 has ended
    memory_texts,         \* per request: the memory text handed to pass 1, until pass 1 has ended
    pass1_output,         \* per request: the summary handed to pass 2
    ret,                  \* the latest completed process_context call and what it returned
    lastTrueRet,          \* history: clock reading of the latest return with should_suggest = True
    check,                \* a direct call of SafetyChecker.is_action_safe: inputs and result
    service,              \* app.state of the THINK service and what its endpoint has done
    rule_call,            \* a direct call of DecisionGraph.candidates_from_context
    feedback,             \* a call of store_user_confirmation: inputs, writes attempted, outcome
    pair                  \* two process_context calls on packets that differ in capabilities only

vars == <<clock, cooldown_threshold, last_suggestion_time, allowObs, lastGranted,
          pc, ctx, candidates, memory_read, memory_texts, pass1_output, ret, lastTrueRet,
          check, service, rule_call, feedback, pair>>

budgetVars == <<cooldown_threshold, last_suggestion_time, allowObs, lastGranted>>
pass1Vars == <<candidates, memory_read, memory_texts>>
orchVars == <<pc, ctx, pass1Vars, pass1_output, ret, lastTrueRet>>
callVars == <<rule_call, feedback, pair>>

(***************************************************************************)
(* Python values                                                           *)
(***************************************************************************)
IntV(n) == [t |-> "int", n |-> n, s |-> <<>>]
StrV(s) == [t |-> "str", n |-> 0, s |-> s]
NoneV == [t |-> "none", n |-> 0, s |-> <<>>]

\* isinstance(v, (int, float))
IsNumeric(v) == v.t = "int"

Digits == {"0", "1", "2", "3", "4", "5", "6", "7", "8", "9"}

DigitOf(d) == CASE d = 0 -> "0" [] d = 1 -> "1" [] d = 2 -> "2" [] d = 3 -> "3"
                [] d = 4 -> "4" [] d = 5 -> "5" [] d = 6 -> "6" [] d = 7 -> "7"
                [] d = 8 -> "8" [] OTHER -> "9"

RECURSIVE NatStr(_)
NatStr(n) == IF n < 10 THEN <<DigitOf(n)>> ELSE NatStr(n \div 10) \o <<DigitOf(n % 10)>>

\* str(param_value)
PyStr(v) ==
    CASE v.t = "str" -> v.s
      [] v.t = "int" -> IF v.n < 0 THEN <<"-">> \o NatStr(0 - v.n) ELSE NatStr(v.n)
      [] v.t = "none" -> <<"N", "o", "n", "e">>
      [] OTHER -> <<"{", "}">>

\* re.match(r"^\d{2}:\d{2}$", text): "$" matches at the end of the string and
\* also just before a newline that ends the string.
re_match_hhmm(text) ==
    /\ Len(text) \in {5, 6}
    /\ text[1] \in Digits /\ text[2] \in Digits
    /\ text[3] = ":"
    /\ text[4] \in Digits /\ text[5] \in Digits
    /\ (Len(text) = 6 => text[6] = "\n")

\* Python's  sub in text  on strings
Contains(sub, text) ==
    \E i \in 1..(Len(text) + 1) :
        /\ i + Len(sub) - 1 <= Len(text)
        /\ SubSeq(text, i, i + Len(sub) - 1) = sub

\* x in list
InList(x, list) == \E i \in 1..Len(list) : list[i] = x

(***************************************************************************)
(* Capability specs (the devices.json format) and the data schemas         *)
(***************************************************************************)
ListSpec(items) == [t |-> "list", items |-> items, s |-> <<>>]
TokenSpec(s) == [t |-> "str", items |-> <<>>, s |-> s]
NestedSpec == [t |-> "dict", items |-> <<>>, s |-> <<>>]

HHMM == <<"H", "H", ":", "M", "M">>

\* a capabilities dict: the keys it has, and the values of the two keys read
Caps(keys, functions, parameters) ==
    [keys |-> keys, functions |-> functions, parameters |-> parameters]
EmptyCaps == Caps({}, <<>>, <<>>)

\* dict-as-ordered-pairs helpers: <<name, value>> entries, names unique
HasKey(d, k) == \E i \in 1..Len(d) : d[i][1] = k
Lookup(d, k) == d[CHOOSE i \in 1..Len(d) : d[i][1] = k][2]

\* caps.get("functions", []) and caps.get("parameters", {})
available_functions(caps) == IF "functions" \in caps.keys THEN caps.functions ELSE <<>>
available_params(caps) == IF "parameters" \in caps.keys THEN caps.parameters ELSE <<>>

DeviceState(id, on, capabilities) == [id |-> id, on |-> on, capabilities |-> capabilities]

\* The optional facets of a ContextPacket; the string "None" stands for None,
\* in a facet that is absent and in a field that is unset.
EnvironmentContext(occupancy) == [some |-> TRUE, occupancy |-> occupancy]
NoEnvironment == [some |-> FALSE, occupancy |-> "None"]
BiometricContext(activity_status, stress_level) ==
    [some |-> TRUE, activity_status |-> activity_status, stress_level |-> stress_level]
NoBiometric == [some |-> FALSE, activity_status |-> "None", stress_level |-> "None"]
LocationContext(place) == [some |-> TRUE, place |-> place]
NoLocation == [some |-> FALSE, place |-> "None"]

ContextPacket(biometric, location, environment, devices) ==
    [biometric |-> biometric, location |-> location, environment |-> environment,
     devices |-> devices]

ActionCommand(device_id, command, params) ==
    [some |-> TRUE, device_id |-> device_id, command |-> command, params |-> params]
NoAction == [some |-> FALSE, device_id |-> <<>>, command |-> "", params |-> <<>>]

(***************************************************************************)
(* DecisionGraph: the rule engine                                          *)
(***************************************************************************)
Candidate(action_type, target_devices, reason) ==
    [action_type |-> action_type, target_devices |-> target_devices, reason |-> reason]

\* [d.id for d in devices]
IdsOf(devices) == [i \in 1..Len(devices) |-> devices[i].id]

\* the rules with the bath rule not asking where the user is
candidates_from_context_anywhere(c) ==
    LET on_devices ==
            IdsOf(SelectSeq(c.devices, LAMBDA d : d.on /\ Contains(<<"light">>, d.id)))
        water_devices ==
            IdsOf(SelectSeq(c.devices,
                            LAMBDA d : \/ Contains(<<"geyser">>, d.id)
                                       \/ Contains(<<"water", "_", "heater">>, d.id)))
        relax_targets ==
            IdsOf(SelectSeq(c.devices,
                            LAMBDA d : \/ Contains(<<"light">>, d.id)
                                       \/ Contains(<<"speaker">>, d.id)))
        lights ==
            IF /\ c.environment.some /\ c.environment.occupancy = "vacant"
               /\ Len(on_devices) > 0
            THEN <<Candidate("turn_off_room_lights", on_devices,
                             "room appears empty and lights are on")>>
            ELSE <<>>
        bath ==
            IF /\ c.biometric.some /\ c.biometric.activity_status = "post_workout"
               /\ Len(water_devices) > 0
            THEN <<Candidate("prepare_bath", water_devices,
                             "user finished workout and is at home")>>
            ELSE <<>>
        relax ==
            IF /\ c.biometric.some /\ c.biometric.stress_level = "high"
               /\ Len(relax_targets) > 0
            THEN <<Candidate("relaxation_routine", relax_targets, "user shows high stress")>>
            ELSE <<>>
    IN  lights \o bath \o relax

\* The three rules in the order of the code; a rule adds its candidate when its
\* condition holds and its list of targets is not empty.
candidates_from_context(c) ==
    LET on_devices ==
            IdsOf(SelectSeq(c.devices, LAMBDA d : d.on /\ Contains(<<"light">>, d.id)))
        water_devices ==
            IdsOf(SelectSeq(c.devices,
                            LAMBDA d : \/ Contains(<<"geyser">>, d.id)
                                       \/ Contains(<<"water", "_", "heater">>, d.id)))
        relax_targets ==
            IdsOf(SelectSeq(c.devices,
                            LAMBDA d : \/ Contains(<<"light">>, d.id)
                                       \/ Contains(<<"speaker">>, d.id)))
        lights ==
            IF /\ c.environment.some /\ c.environment.occupancy = "vacant"
               /\ Len(on_devices) > 0
            THEN <<Candidate("turn_off_room_lights", on_devices,
                             "room appears empty and lights are on")>>
            ELSE <<>>
        bath ==
            IF /\ c.biometric.some /\ c.biometric.activity_status = "post_workout"
               /\ c.location.some /\ c.location.place = "home"
               /\ Len(water_devices) > 0
            THEN <<Candidate("prepare_bath", water_devices,
                             "user finished workout and is at home")>>
            ELSE <<>>
        relax ==
            IF /\ c.biometric.some /\ c.biometric.stress_level = "high"
               /\ Len(relax_targets) > 0
            THEN <<Candidate("relaxation_routine", relax_targets, "user shows high stress")>>
            ELSE <<>>
    IN  lights \o bath \o relax

(***************************************************************************)
(* ChromaStore: what the orchestrator sees of the memory store             *)
(***************************************************************************)
NoInformationText == "No information in memory."
NoRelevantText == "No relevant information found in memory."
QueryErrorText == "Error querying memory."
RetrievedFacts == "- User prefers a bath at 42 degrees Celsius after a workout."

\* How the collection answers a read: it is empty; the query returns documents;
\* the query returns none; the query raises; collection.count() raises.
MemoryReads == {"empty", "found", "no_documents", "query_failed", "count_failed"}
MemoryReadFailures == {"query_failed", "count_failed"}

\* get_relevant_info: count() is called outside the try block, the query inside
get_relevant_info(read) ==
    IF read = "count_failed" THEN [raised |-> TRUE, text |-> "None"]
    ELSE IF read = "empty" THEN [raised |-> FALSE, text |-> NoInformationText]
    ELSE IF read = "found" THEN [raised |-> FALSE, text |-> RetrievedFacts]
    ELSE IF read = "no_documents" THEN [raised |-> FALSE, text |-> NoRelevantText]
    ELSE [raised |-> FALSE, text |-> QueryErrorText]

(***************************************************************************)
(* SafetyChecker                                                           *)
(***************************************************************************)
SAFE_DEVICE_BLACKLIST == {<<"router">>, <<"refrigerator">>, <<"security", "_", "camera">>}

\* the blacklist test comparing whole ids instead of searching them
Blacklisted_whole_id(device_id) == device_id \in SAFE_DEVICE_BLACKLIST

Blacklisted(device_id) == \E bad \in SAFE_DEVICE_BLACKLIST : Contains(bad, device_id)

\* dev_map = {d.id: d for d in devices}: a later device replaces an earlier one
InDevMap(device_id, devices) == \E i \in 1..Len(devices) : devices[i].id = device_id
DevMapGet(device_id, devices) ==
    devices[CHOOSE i \in 1..Len(devices) :
                /\ devices[i].id = device_id
                /\ \A j \in (i + 1)..Len(devices) : devices[j].id # device_id]

\* the parameter check with the upper bound of a range excluded
check_param_exclusive_max(param_name, param_value, params_spec) ==
    IF ~HasKey(params_spec, param_name) THEN "continue"
    ELSE LET param_spec == Lookup(params_spec, param_name) IN
         IF param_spec.t = "list" THEN
             IF Len(param_spec.items) = 0 THEN "continue"
             ELSE IF IsNumeric(param_spec.items[1]) THEN
                 IF Len(param_spec.items) = 2 THEN
                     LET min_v == param_spec.items[1]
                         max_v == param_spec.items[2]
                     IN  IF ~IsNumeric(param_value) THEN "unsafe"
                         ELSE IF ~(min_v.n <= param_value.n) THEN "unsafe"
                         ELSE IF ~IsNumeric(max_v) THEN "raise"
                         ELSE IF ~(param_value.n < max_v.n) THEN "unsafe"
                         ELSE "continue"
                 ELSE "continue"
             ELSE IF param_spec.items[1].t = "str" THEN
                 IF ~InList(param_value, param_spec.items) THEN "unsafe" ELSE "continue"
             ELSE "continue"
         ELSE IF param_spec.t = "str" THEN
             IF param_spec.s = HHMM
             THEN IF ~re_match_hhmm(PyStr(param_value)) THEN "unsafe" ELSE "continue"
             ELSE "continue"
         ELSE "continue"

\* the parameter check failing on a parameter the capability spec does not declare
check_param_strict(param_name, param_value, params_spec) ==
    IF ~HasKey(params_spec, param_name) THEN "unsafe"
    ELSE LET param_spec == Lookup(params_spec, param_name) IN
         IF param_spec.t = "list" THEN
             IF Len(param_spec.items) = 0 THEN "continue"
             ELSE IF IsNumeric(param_spec.items[1]) THEN
                 IF Len(param_spec.items) = 2 THEN
                     LET min_v == param_spec.items[1]
                         max_v == param_spec.items[2]
                     IN  IF ~IsNumeric(param_value) THEN "unsafe"
                         ELSE IF ~(min_v.n <= param_value.n) THEN "unsafe"
                         ELSE IF ~IsNumeric(max_v) THEN "raise"
                         ELSE IF ~(param_value.n <= max_v.n) THEN "unsafe"
                         ELSE "continue"
                 ELSE "continue"
             ELSE IF param_spec.items[1].t = "str" THEN
                 IF ~InList(param_value, param_spec.items) THEN "unsafe" ELSE "continue"
             ELSE "continue"
         ELSE IF param_spec.t = "str" THEN
             IF param_spec.s = HHMM
             THEN IF ~re_match_hhmm(PyStr(param_value)) THEN "unsafe" ELSE "continue"
             ELSE "continue"
         ELSE "continue"

\* One iteration of the parameter loop: "continue", "unsafe" (return False) or
\* "raise" (the comparison with a non-numeric upper bound raises TypeError).
check_param(param_name, param_value, params_spec) ==
    IF ~HasKey(params_spec, param_name) THEN "continue"
    ELSE LET param_spec == Lookup(params_spec, param_name) IN
         IF param_spec.t = "list" THEN
             IF Len(param_spec.items) = 0 THEN "continue"
             ELSE IF IsNumeric(param_spec.items[1]) THEN
                 IF Len(param_spec.items) = 2 THEN
                     LET min_v == param_spec.items[1]
                         max_v == param_spec.items[2]
                     IN  IF ~IsNumeric(param_value) THEN "unsafe"
                         ELSE IF ~(min_v.n <= param_value.n) THEN "unsafe"
                         ELSE IF ~IsNumeric(max_v) THEN "raise"
                         ELSE IF ~(param_value.n <= max_v.n) THEN "unsafe"
                         ELSE "continue"
                 ELSE "continue"
             ELSE IF param_spec.items[1].t = "str" THEN
                 IF ~InList(param_value, param_spec.items) THEN "unsafe" ELSE "continue"
             ELSE "continue"
         ELSE IF param_spec.t = "str" THEN
             IF param_spec.s = HHMM
             THEN IF ~re_match_hhmm(PyStr(param_value)) THEN "unsafe" ELSE "continue"
             ELSE "continue"
         ELSE "continue"

RECURSIVE check_params(_, _, _)
check_params(params, params_spec, i) ==
    IF i > Len(params) THEN "safe"
    ELSE LET r == check_param(params[i][1], params[i][2], params_spec) IN
         IF r = "continue" THEN check_params(params, params_spec, i + 1) ELSE r

\* the checks on a device that is in dev_map
check_known_device(action, devices) ==
    IF Blacklisted(action.device_id) THEN "unsafe"
    ELSE LET caps == DevMapGet(action.device_id, devices).capabilities IN
         IF caps.keys = {} THEN "unsafe"
         ELSE IF ~InList(action.command, available_functions(caps)) THEN "unsafe"
         ELSE check_params(action.params, available_params(caps), 1)

\* is_action_safe without the fail-safe answer for a device that is not in dev_map
is_action_safe_unknown_ok(action, devices) ==
    IF ~InDevMap(action.device_id, devices) THEN "safe"
    ELSE check_known_device(action, devices)

\* "safe" (True), "unsafe" (False) or "raise"
is_action_safe(action, devices) ==
    IF ~InDevMap(action.device_id, devices) THEN "unsafe"
    ELSE check_known_device(action, devices)

(***************************************************************************)
(* ProactivityBudget                                                       *)
(***************************************************************************)
\* Optional[datetime]: None is the empty set, a timestamp t is {t}
NoTime == {}
At(t) == {t}
TimeOf(o) == CHOOSE t \in o : TRUE

DefaultCooldown == 10

\* allow() that records the timestamp of the first allowed call only
allow_no_record(now, last, threshold) ==
    IF last = NoTime THEN [allowed |-> TRUE, last |-> At(now)]
    ELSE [allowed |-> now - TimeOf(last) >= threshold, last |-> last]

\* allow() restarting the cooldown at a call it denies
allow_sliding(now, last, threshold) ==
    IF last = NoTime THEN [allowed |-> TRUE, last |-> At(now)]
    ELSE IF now - TimeOf(last) >= threshold
         THEN [allowed |-> TRUE, last |-> At(now)]
         ELSE [allowed |-> FALSE, last |-> At(now)]

\* allow() with a strict comparison of the elapsed time
allow_strict(now, last, threshold) ==
    IF last = NoTime THEN [allowed |-> TRUE, last |-> At(now)]
    ELSE IF now - TimeOf(last) > threshold
         THEN [allowed |-> TRUE, last |-> At(now)]
         ELSE [allowed |-> FALSE, last |-> last]

\* ProactivityBudget.allow() reading the clock as `now`: the value returned and
\* the value of last_suggestion_time it leaves
allow(now, last, threshold) ==
    IF last = NoTime THEN [allowed |-> TRUE, last |-> At(now)]
    ELSE LET time_elapsed == now - TimeOf(last) IN
         IF time_elapsed >= threshold
         THEN [allowed |-> TRUE, last |-> At(now)]
         ELSE [allowed |-> FALSE, last |-> last]

\* cooldowns the budget is constructed with: disabled, short, the default
Cooldowns == {0, 2, DefaultCooldown}

MaxClock == 2
BudgetHorizon == DefaultCooldown + MaxClock

NoAllow == [called |-> FALSE, now |-> 0, before |-> NoTime, grantedBefore |-> NoTime,
            allowed |-> FALSE]

FreshBudget ==
    /\ last_suggestion_time = NoTime
    /\ allowObs = NoAllow
    /\ lastGranted = NoTime

(***************************************************************************)
(* Idle values of the orchestrator's requests and of the direct check      *)
(***************************************************************************)
Requests == {"r1", "r2"}

NoContext == ContextPacket(NoBiometric, NoLocation, NoEnvironment, <<>>)

\* the ways the pass 2 chain fails: the LLM call raises, the output parser raises
FailureKinds == {"call_failed", "parse_failed"}

NoSuggestion == [should_suggest |-> FALSE, suggestion_text |-> "None", reason |-> "None",
                 action |-> NoAction, confidence |-> 0]
NoEvent == [kind |-> "none", out |-> NoSuggestion]
NoRet == [outcome |-> "none", ctx |-> NoContext, memory_read |-> "none",
          pass1_output |-> "None",
          event |-> NoEvent, suggestion |-> NoSuggestion, at |-> 0,
          lastBefore |-> NoTime, trueBefore |-> NoTime, consulted |-> FALSE]

IdleOrchestrator ==
    /\ pc = [r \in Requests |-> "idle"]
    /\ ctx = [r \in Requests |-> NoContext]
    /\ candidates = [r \in Requests |-> <<>>]
    /\ memory_read = [r \in Requests |-> "none"]
    /\ memory_texts = [r \in Requests |-> "None"]
    /\ pass1_output = [r \in Requests |-> "None"]
    /\ ret = NoRet
    /\ lastTrueRet = NoTime

NoCheck == [phase |-> "none", action |-> NoAction, devices |-> <<>>, result |-> "none"]

\* app.state before startup_event has run
\* tasks: the background tasks not yet run, each the should_suggest of the
\* suggestion it was handed; posts: the calls of client.post made so far;
\* returned_true: history, the requests whose suggestion had should_suggest = True
NoService == [startup |-> "pending", orchestrator |-> "unset", processed |-> FALSE,
              forward_scheduled |-> FALSE, rejected |-> FALSE,
              tasks |-> <<>>, posts |-> 0, returned_true |-> 0]
\* an orchestrator that its caller has constructed and hands packets to
\* directly, without the service in front of it
ReadyService == [startup |-> "direct", orchestrator |-> "ready", processed |-> FALSE,
                 forward_scheduled |-> FALSE, rejected |-> FALSE,
                 tasks |-> <<>>, posts |-> 0, returned_true |-> 0]

NoRuleCall == [phase |-> "none", ctx |-> NoContext, result |-> <<>>]
NoFeedback == [phase |-> "none", suggestion |-> NoSuggestion, ctx |-> NoContext,
               accepted |-> FALSE, store |-> "none", writes |-> <<>>, outcome |-> "none"]
NoPair == [phase |-> "none", first |-> NoContext, second |-> NoContext, event |-> NoEvent,
           results |-> <<>>]
IdleCalls ==
    /\ rule_call = NoRuleCall
    /\ feedback = NoFeedback
    /\ pair = NoPair

(***************************************************************************)
(* The clock                                                               *)
(***************************************************************************)
Tick(max) ==
    /\ clock < max
    /\ clock' = clock + 1
    /\ UNCHANGED <<budgetVars, orchVars, check, service, callVars>>

\* datetime.utcnow() is the wall clock, which may be set back
ClockBack ==
    /\ clock > 0
    /\ clock' = clock - 1
    /\ UNCHANGED <<budgetVars, orchVars, check, service, callVars>>

(***************************************************************************)
(* The budget on its own: a caller that calls allow() at arbitrary times   *)
(***************************************************************************)
BudgetInit ==
    /\ clock = 0
    /\ cooldown_threshold \in Cooldowns
    /\ FreshBudget
    /\ IdleOrchestrator
    /\ check = NoCheck
    /\ service = NoService
    /\ IdleCalls

AllowCall ==
    LET r == allow(clock, last_suggestion_time, cooldown_threshold) IN
    /\ last_suggestion_time' = r.last
    /\ allowObs' = [called |-> TRUE, now |-> clock, before |-> last_suggestion_time,
                    grantedBefore |-> lastGranted, allowed |-> r.allowed]
    /\ lastGranted' = IF r.allowed THEN At(clock) ELSE lastGranted
    /\ UNCHANGED <<clock, cooldown_threshold, orchVars, check, service, callVars>>

BudgetNext == Tick(BudgetHorizon) \/ ClockBack \/ AllowCall

SpecBudget == BudgetInit /\ [][BudgetNext]_vars

(***************************************************************************)
(* The validator on its own: inputs drawn from bounded sets                *)
(***************************************************************************)
AcId == <<"smart", "_", "ac">>
LightId == <<"smart", "_", "light">>
RouterId == <<"wifi", "_", "router">>
CameraId == <<"security", "_", "camera", "_", "1">>
FridgeId == <<"refrigerator">>
\* contains the words of a blacklist entry, but not the entry
NearMissId == <<"security", "camera">>

T1234 == <<"1", "2", ":", "3", "4">>
Cool == <<"cool">>
Heat == <<"heat">>

CheckValues ==
    {IntV(15), IntV(16), IntV(30), IntV(31), StrV(Cool), StrV(T1234),
     StrV(T1234 \o <<"\n">>), NoneV}
SecondValues == {StrV(Cool), StrV(T1234), IntV(16)}

RangeSpec == ListSpec(<<IntV(16), IntV(30)>>)
EnumSpec == ListSpec(<<StrV(Cool), StrV(Heat)>>)
SpecShapes ==
    {RangeSpec, EnumSpec, TokenSpec(HHMM),
     ListSpec(<<>>), ListSpec(<<IntV(16)>>), ListSpec(<<NoneV>>),
     ListSpec(<<IntV(16), StrV(<<"max">>)>>),
     TokenSpec(<<"Y", "Y">>), NestedSpec}

CheckParams ==
    LET P == {<<"p", v>> : v \in CheckValues}
        Q == {<<"q", v>> : v \in SecondValues}
    IN  {<<>>} \cup {<<x>> : x \in P \cup Q}
               \cup {<<x, y>> : x \in P, y \in Q} \cup {<<y, x>> : x \in P, y \in Q}

CheckParamSpecs ==
    {<<>>} \cup {<< <<"p", s>> >> : s \in SpecShapes}
           \cup {<< <<"p", s>>, <<"q", EnumSpec>> >> : s \in SpecShapes}

CheckCaps ==
    {EmptyCaps, Caps({"functions"}, <<"set">>, <<>>),
     Caps({"parameters"}, <<>>, << <<"p", RangeSpec>> >>),
     Caps({"functions", "parameters"}, <<>>, <<>>)}
    \cup {Caps({"functions", "parameters"}, <<"on", "set">>, ps) : ps \in CheckParamSpecs}

FixedCaps == Caps({"functions", "parameters"}, <<"set">>, << <<"p", EnumSpec>> >>)

CheckActions ==
    {ActionCommand(id, cmd, ps) :
        id \in {AcId, RouterId, CameraId, FridgeId, NearMissId}, cmd \in {"set", "reboot"},
        ps \in CheckParams}

CheckDevices ==
    {<<>>}
    \cup {<<DeviceState(AcId, TRUE, c)>> : c \in CheckCaps}
    \cup {<<DeviceState(LightId, TRUE, FixedCaps), DeviceState(AcId, FALSE, c)>> : c \in CheckCaps}
    \cup {<<DeviceState(RouterId, TRUE, c)>> : c \in CheckCaps}
    \cup {<<DeviceState(FridgeId, TRUE, c)>> : c \in CheckCaps}
    \cup {<<DeviceState(CameraId, TRUE, c), DeviceState(AcId, TRUE, FixedCaps)>> : c \in CheckCaps}
    \cup {<<DeviceState(NearMissId, TRUE, c)>> : c \in CheckCaps}

SafetyInit ==
    /\ clock = 0
    /\ cooldown_threshold = DefaultCooldown
    /\ FreshBudget
    /\ IdleOrchestrator
    /\ service = NoService
    /\ IdleCalls
    /\ \E a \in CheckActions, ds \in CheckDevices :
           check = [phase |-> "drawn", action |-> a, devices |-> ds, result |-> "none"]

CheckSafe ==
    /\ check.phase = "drawn"
    /\ check' = [check EXCEPT !.phase = "done",
                              !.result = is_action_safe(check.action, check.devices)]
    /\ UNCHANGED <<clock, budgetVars, orchVars, service, callVars>>

SafetyNext == CheckSafe

SpecSafety == SafetyInit /\ [][SafetyNext]_vars

(***************************************************************************)
(* LangchainLLMClient.pass2_structured and the SuggestionSchema            *)
(***************************************************************************)
\* confidence is kept in tenths: 5 is 0.5
DefaultConfidence == 5
DenyConfidence == 0
MaxConfidence == 10

Suggestion(should_suggest, suggestion_text, reason, action, confidence) ==
    [should_suggest |-> should_suggest, suggestion_text |-> suggestion_text,
     reason |-> reason, action |-> action, confidence |-> confidence]

SuggestionFields == {"should_suggest", "suggestion_text", "reason", "action", "confidence"}

\* A dict of SuggestionSchema fields: the keys it has and their values
\* parsed.model_dump()
model_dump(parsed) == [keys |-> SuggestionFields, val |-> parsed]

\* {"should_suggest": False, "reason": "llm_parse_failed"}
ParseFailedDict ==
    [keys |-> {"should_suggest", "reason"},
     val |-> Suggestion(FALSE, "None", "llm_parse_failed", NoAction, DenyConfidence)]

\* What awaiting pass2_chain.ainvoke ends in: a parsed SuggestionSchema ("ok"),
\* an exception of the LLM call ("call_failed") or an exception of the output
\* parser ("parse_failed").  The try block holds the whole call, and its
\* handler catches Exception: pass2_structured returns a dict and never raises.
pass2_structured(event) ==
    IF event.kind = "ok"
    THEN [raised |-> FALSE, dict |-> model_dump(event.out)]
    ELSE [raised |-> FALSE, dict |-> ParseFailedDict]

\* SuggestionSchema(**d): absent fields take their defaults; should_suggest is
\* required and confidence is validated to lie in [0, 1]
SuggestionSchema(d) ==
    LET conf == IF "confidence" \in d.keys THEN d.val.confidence ELSE DefaultConfidence IN
    IF "should_suggest" \notin d.keys \/ conf < 0 \/ conf > MaxConfidence
    THEN [error |-> "ValidationError", value |-> NoSuggestion]
    ELSE [error |-> "none",
          value |-> Suggestion(
              d.val.should_suggest,
              IF "suggestion_text" \in d.keys THEN d.val.suggestion_text ELSE "None",
              IF "reason" \in d.keys THEN d.val.reason ELSE "None",
              IF "action" \in d.keys THEN d.val.action ELSE NoAction,
              conf)]

(***************************************************************************)
(* ThinkOrchestrator                                                       *)
(***************************************************************************)
SafetyFailedReason == "Action failed safety check."
BudgetExhaustedReason == "Proactivity budget exhausted."
Pass1ErrorSummary == "LLM pass1 error"

SpeakerId == <<"bt", "_", "speaker">>
HeaterId == <<"water", "_", "heater">>

\* The capability map the orchestrator is constructed with (id -> capabilities)
device_capabilities ==
    << <<LightId, Caps({"functions", "parameters"}, <<"on", "off", "set_brightness">>,
                       << <<"brightness", ListSpec(<<IntV(0), IntV(100)>>)>> >>)>>,
       <<AcId, Caps({"functions", "parameters"}, <<"set_mode", "set_temperature", "schedule">>,
                    << <<"mode", ListSpec(<<StrV(Cool), StrV(Heat)>>)>>,
                       <<"temperature", ListSpec(<<IntV(16), IntV(30)>>)>>,
                       <<"schedule_time", TokenSpec(HHMM)>> >>)>>,
       <<RouterId, Caps({"functions", "parameters"}, <<"on", "off", "reboot">>, <<>>)>>,
       <<CameraId, Caps({"functions", "parameters"}, <<"on", "off", "set_brightness">>,
                        << <<"brightness", ListSpec(<<IntV(0), IntV(100)>>)>> >>)>>,
       <<HeaterId, Caps({"functions", "parameters"}, <<"set_temperature">>,
                        << <<"temperature", ListSpec(<<IntV(30), StrV(<<"max">>)>>)>> >>)>> >>

\* enrichment leaving a device the map has no entry for as it arrived
enrich_device_keeps_unmapped(dev_state, capabilities) ==
    IF HasKey(capabilities, dev_state.id)
    THEN [dev_state EXCEPT !.capabilities = Lookup(capabilities, dev_state.id)]
    ELSE dev_state

\* enrichment filling in only the devices that arrive without capabilities
enrich_device_fills_missing(dev_state, capabilities) ==
    IF dev_state.capabilities # EmptyCaps THEN dev_state
    ELSE IF HasKey(capabilities, dev_state.id)
    THEN [dev_state EXCEPT !.capabilities = Lookup(capabilities, dev_state.id)]
    ELSE [dev_state EXCEPT !.capabilities = EmptyCaps]

\* _enrich_context_with_capabilities: every device gets the map's entry for its
\* id, or an empty dict
enrich_device(dev_state, capabilities) ==
    IF HasKey(capabilities, dev_state.id)
    THEN [dev_state EXCEPT !.capabilities = Lookup(capabilities, dev_state.id)]
    ELSE [dev_state EXCEPT !.capabilities = EmptyCaps]

enrich_context_with_capabilities(c, capabilities) ==
    [c EXCEPT !.devices = [i \in 1..Len(c.devices) |-> enrich_device(c.devices[i], capabilities)]]

\* step 4: the suggestion built from pass 2
DenyValidationFailed == Suggestion(FALSE, "None", "validation_failed", NoAction, DenyConfidence)
DenyLLMError == Suggestion(FALSE, "None", "llm_error", NoAction, DenyConfidence)

suggestion_from_pass2(event) ==
    LET pass2_out == pass2_structured(event) IN
    IF pass2_out.raised THEN DenyLLMError
    ELSE LET built == SuggestionSchema(pass2_out.dict) IN
         IF built.error = "ValidationError" THEN DenyValidationFailed ELSE built.value

\* step 5 setting should_suggest for an action it finds safe
safety_stage_approves(suggestion, devices) ==
    IF suggestion.action.some
    THEN LET verdict == is_action_safe(suggestion.action, devices) IN
         IF verdict = "raise" THEN [raised |-> TRUE, suggestion |-> suggestion]
         ELSE IF verdict = "unsafe"
         THEN [raised |-> FALSE,
               suggestion |-> [suggestion EXCEPT !.should_suggest = FALSE,
                                                 !.reason = SafetyFailedReason]]
         ELSE [raised |-> FALSE, suggestion |-> [suggestion EXCEPT !.should_suggest = TRUE]]
    ELSE [raised |-> FALSE, suggestion |-> suggestion]

\* step 5 without the check
safety_stage_skipped(suggestion, devices) == [raised |-> FALSE, suggestion |-> suggestion]

\* step 5 clearing should_suggest but leaving the reasoner's reason
safety_stage_keep_reason(suggestion, devices) ==
    IF suggestion.action.some /\ is_action_safe(suggestion.action, devices) = "unsafe"
    THEN [raised |-> FALSE, suggestion |-> [suggestion EXCEPT !.should_suggest = FALSE]]
    ELSE [raised |-> FALSE, suggestion |-> suggestion]

\* step 5 discarding the action it rejects
safety_stage_drops_action(suggestion, devices) ==
    IF suggestion.action.some
    THEN LET verdict == is_action_safe(suggestion.action, devices) IN
         IF verdict = "raise" THEN [raised |-> TRUE, suggestion |-> suggestion]
         ELSE IF verdict = "unsafe"
         THEN [raised |-> FALSE,
               suggestion |-> [suggestion EXCEPT !.should_suggest = FALSE,
                                                 !.reason = SafetyFailedReason,
                                                 !.action = NoAction]]
         ELSE [raised |-> FALSE, suggestion |-> suggestion]
    ELSE [raised |-> FALSE, suggestion |-> suggestion]

\* step 5: "raise" when is_action_safe raises, else the suggestion it leaves
safety_stage(suggestion, devices) ==
    IF suggestion.action.some
    THEN LET verdict == is_action_safe(suggestion.action, devices) IN
         IF verdict = "raise" THEN [raised |-> TRUE, suggestion |-> suggestion]
         ELSE IF verdict = "unsafe"
         THEN [raised |-> FALSE,
               suggestion |-> [suggestion EXCEPT !.should_suggest = FALSE,
                                                 !.reason = SafetyFailedReason]]
         ELSE [raised |-> FALSE, suggestion |-> suggestion]
    ELSE [raised |-> FALSE, suggestion |-> suggestion]

\* step 6 calling allow() and ignoring what it returns
budget_stage_ignored(suggestion, now, last, threshold) ==
    IF suggestion.should_suggest
    THEN LET r == allow(now, last, threshold) IN
         [consulted |-> TRUE, allowed |-> r.allowed, last |-> r.last, suggestion |-> suggestion]
    ELSE [consulted |-> FALSE, allowed |-> FALSE, last |-> last, suggestion |-> suggestion]

\* step 6 calling allow() for every suggestion, denied ones included
budget_stage_always_consults(suggestion, now, last, threshold) ==
    LET r == allow(now, last, threshold) IN
    [consulted |-> TRUE, allowed |-> r.allowed, last |-> r.last,
     suggestion |-> IF suggestion.should_suggest /\ ~r.allowed
                    THEN [suggestion EXCEPT !.should_suggest = FALSE,
                                            !.reason = BudgetExhaustedReason]
                    ELSE suggestion]

\* step 6: allow() is called only for a suggestion that is still should_suggest
budget_stage(suggestion, now, last, threshold) ==
    IF suggestion.should_suggest
    THEN LET r == allow(now, last, threshold) IN
         [consulted |-> TRUE, allowed |-> r.allowed, last |-> r.last,
          suggestion |-> IF r.allowed THEN suggestion
                         ELSE [suggestion EXCEPT !.should_suggest = FALSE,
                                                 !.reason = BudgetExhaustedReason]]
    ELSE [consulted |-> FALSE, allowed |-> FALSE, last |-> last, suggestion |-> suggestion]

(***************************************************************************)
(* store_user_confirmation and ChromaStore.add_document                    *)
(***************************************************************************)
\* How the store answers a write: there is no store (self.memory is None); the
\* document is stored; it is skipped as a duplicate; collection.add raises;
\* collection.count() raises in the duplicate check.
StoreWrites == {"absent", "stored", "duplicate", "add_failed", "count_failed"}
StoreWriteFailures == {"add_failed", "count_failed"}

\* add_document: the duplicate check calls count() outside its try block, and
\* the handler around collection.add logs and raises again
add_document(store) ==
    IF store = "count_failed" THEN [raised |-> TRUE, result |-> "None"]
    ELSE IF store = "duplicate" THEN [raised |-> FALSE, result |-> "DUPLICATE_SKIPPED"]
    ELSE IF store = "add_failed" THEN [raised |-> TRUE, result |-> "None"]
    ELSE [raised |-> FALSE, result |-> "doc_id"]

\* the fact handed to add_document: its text names the suggestion, its metadata
\* carry the type, the accepted flag, the action or the reason, and the activity
Fact(type, accepted, suggestion_text, action, reason, context_activity) ==
    [type |-> type, accepted |-> accepted, suggestion_text |-> suggestion_text,
     action |-> action, reason |-> reason, context_activity |-> context_activity]

\* activity = ctx.biometric.activity_status or "unknown"
context_activity(c) ==
    IF c.biometric.some /\ c.biometric.activity_status # "None"
    THEN c.biometric.activity_status ELSE "unknown"

\* The add_document calls the method makes, in order, and whether it raises
store_user_confirmation(suggestion, c, accepted, store) ==
    IF store = "absent" THEN [writes |-> <<>>, raised |-> FALSE]
    ELSE IF accepted THEN
        IF suggestion.action.some
        THEN [writes |-> <<Fact("accepted_action", TRUE, suggestion.suggestion_text,
                                suggestion.action, "None", context_activity(c))>>,
              raised |-> add_document(store).raised]
        ELSE [writes |-> <<>>, raised |-> FALSE]
    ELSE [writes |-> <<Fact("rejected_action", FALSE, suggestion.suggestion_text,
                            NoAction, suggestion.reason, context_activity(c))>>,
          raised |-> add_document(store).raised]

(***************************************************************************)
(* startup_event of the THINK service                                      *)
(***************************************************************************)
\* How startup goes: every step succeeds; devices.json is missing; it cannot be
\* parsed or has not the expected shape; the memory store cannot be built; no
\* LLM is configured; the pre-population of the memory raises.
StartupOutcomes ==
    {"ok", "config_missing", "config_invalid", "memory_failed", "llm_missing",
     "prepopulate_failed"}
ConfigFailures == {"config_missing", "config_invalid"}

\* startup going on with an empty capability map when the configuration fails
startup_event_empty_map(outcome) ==
    IF outcome \in ConfigFailures \cup {"ok"} THEN "ready" ELSE "none"

\* app.state.orchestrator after startup_event: the handler of the try block
\* that holds every step sets it to None
startup_event(outcome) == IF outcome = "ok" THEN "ready" ELSE "none"

(***************************************************************************)
(* forward_suggestion                                                      *)
(***************************************************************************)
\* forwarding that posts again after a post that failed
forward_suggestion_retry(should_suggest) == IF ~should_suggest THEN 0 ELSE 2

\* The number of calls of client.post: none for a suggestion with should_suggest
\* False, else one, whose exception is logged and dropped
forward_suggestion(should_suggest) == IF ~should_suggest THEN 0 ELSE 1

(***************************************************************************)
(* Inputs of the orchestrator                                              *)
(***************************************************************************)
Dev(id, on) == DeviceState(id, on, EmptyCaps)

\* the user back home from a workout, stressed, the room the packet is about empty
CtxHome ==
    ContextPacket(BiometricContext("post_workout", "high"), LocationContext("home"),
                  EnvironmentContext("vacant"),
                  <<Dev(LightId, TRUE), Dev(AcId, FALSE), Dev(RouterId, TRUE),
                    Dev(CameraId, TRUE), Dev(HeaterId, FALSE), Dev(SpeakerId, FALSE)>>)

\* the same packet, arriving with capabilities of its own on two devices
WideCaps == Caps({"functions", "parameters"}, <<"on", "set_temperature">>,
                 << <<"temperature", ListSpec(<<IntV(0), IntV(100)>>)>> >>)
CtxSpoofed ==
    [CtxHome EXCEPT !.devices = <<Dev(LightId, TRUE), DeviceState(AcId, FALSE, WideCaps),
                                  Dev(RouterId, TRUE), Dev(CameraId, TRUE), Dev(HeaterId, FALSE),
                                  DeviceState(SpeakerId, FALSE, WideCaps)>>]
Contexts == {CtxHome, CtxSpoofed}

\* a device that no packet holds
GarageId == <<"garage", "_", "door">>

DimLight == ActionCommand(LightId, "set_brightness", << <<"brightness", IntV(80)>> >>)
HotAc == ActionCommand(AcId, "set_temperature", << <<"temperature", IntV(90)>> >>)
MildAc == ActionCommand(AcId, "set_temperature", << <<"temperature", IntV(22)>> >>)

ReasonerSuggestions ==
    {Suggestion(TRUE, "dim the light", "user is stressed", DimLight, 9),
     Suggestion(TRUE, "heat the room", "room is cold", HotAc, 9),
     Suggestion(TRUE, "cool the room", "room is warm", MildAc, 7),
     Suggestion(TRUE, "take a break", "long session", NoAction, DefaultConfidence),
     Suggestion(FALSE, "None", "nothing to do", NoAction, 2),
     Suggestion(FALSE, "dim the light", "user declined before", DimLight, 2),
     Suggestion(FALSE, "heat the room", "user declined before", HotAc, 2),
     Suggestion(TRUE, "restart the router", "network is slow",
                ActionCommand(RouterId, "reboot", <<>>), 9),
     Suggestion(TRUE, "dim the camera light", "room is dark",
                ActionCommand(CameraId, "set_brightness", << <<"brightness", IntV(80)>> >>), 9),
     Suggestion(TRUE, "open the garage", "user is arriving",
                ActionCommand(GarageId, "on", <<>>), 9),
     Suggestion(TRUE, "play music", "user is stressed",
                ActionCommand(SpeakerId, "on", <<>>), 9),
     Suggestion(TRUE, "prepare a bath", "user finished workout",
                ActionCommand(HeaterId, "set_temperature", << <<"temperature", IntV(40)>> >>), 9)}

Pass2Events ==
    {[kind |-> "ok", out |-> s] : s \in ReasonerSuggestions}
    \cup {[kind |-> k, out |-> NoSuggestion] : k \in FailureKinds}

\* steps 0 and 1 on each input packet: the packet enriched from the capability
\* map, and the rule engine's candidates for it
EnrichedPacket ==
    [c \in Contexts |-> enrich_context_with_capabilities(c, device_capabilities)]
RuleCandidates == [c \in Contexts |-> candidates_from_context(EnrichedPacket[c])]

(***************************************************************************)
(* process_context, one action per stretch between suspension points       *)
(***************************************************************************)
Init ==
    /\ clock = 0
    /\ cooldown_threshold \in Cooldowns
    /\ FreshBudget
    /\ IdleOrchestrator
    /\ check = NoCheck
    /\ service = ReadyService
    /\ IdleCalls

\* The endpoint hands the packet to the orchestrator.  Steps 0 to 3: enrich,
\* generate candidates, read the memory, then run up to the await of reasoner
\* pass 1; an exception of the memory read propagates out of process_context.
Start(r, c, m) ==
    /\ pc[r] = "idle"
    /\ service.orchestrator = "ready"
    /\ service' = [service EXCEPT !.processed = TRUE]
    /\ \E enriched \in {EnrichedPacket[c]} :
       \E memory \in {get_relevant_info(m)} :
          IF memory.raised
          THEN /\ ret' = [outcome |-> "raised", ctx |-> enriched, memory_read |-> m,
                          pass1_output |-> "None", event |-> NoEvent,
                          suggestion |-> NoSuggestion, at |-> clock,
                          lastBefore |-> last_suggestion_time,
                          trueBefore |-> lastTrueRet, consulted |-> FALSE]
               /\ UNCHANGED <<pc, ctx, pass1Vars>>
          ELSE /\ ctx' = [ctx EXCEPT ![r] = enriched]
               /\ candidates' = [candidates EXCEPT ![r] = RuleCandidates[c]]
               /\ memory_read' = [memory_read EXCEPT ![r] = m]
               /\ memory_texts' = [memory_texts EXCEPT ![r] = memory.text]
               /\ pc' = [pc EXCEPT ![r] = "pass1"]
               /\ UNCHANGED ret
    /\ UNCHANGED <<clock, budgetVars, pass1_output, lastTrueRet, check, callVars>>

\* a failure of pass 1 ending the call with a deny
Pass1Done_fatal(r, ok) ==
    /\ pc[r] = "pass1"
    /\ IF ok
       THEN /\ pass1_output' = [pass1_output EXCEPT ![r] = "summary"]
            /\ pc' = [pc EXCEPT ![r] = "pass2"]
            /\ UNCHANGED <<ctx, ret>>
       ELSE /\ ret' = [outcome |-> "returned", ctx |-> ctx[r], memory_read |-> "none",
                       pass1_output |-> Pass1ErrorSummary, event |-> NoEvent,
                       suggestion |-> DenyLLMError, at |-> clock,
                       lastBefore |-> last_suggestion_time,
                       trueBefore |-> lastTrueRet, consulted |-> FALSE]
            /\ pc' = [pc EXCEPT ![r] = "idle"]
            /\ ctx' = [ctx EXCEPT ![r] = NoContext]
            /\ UNCHANGED pass1_output
    /\ candidates' = [candidates EXCEPT ![r] = <<>>]
    /\ memory_read' = [memory_read EXCEPT ![r] = "none"]
    /\ memory_texts' = [memory_texts EXCEPT ![r] = "None"]
    /\ UNCHANGED <<clock, budgetVars, lastTrueRet, check, service, callVars>>

\* pass 1 returns or raises; process_context runs on to the await of pass 2
Pass1Done(r, ok) ==
    /\ pc[r] = "pass1"
    /\ pass1_output' = [pass1_output EXCEPT ![r] = IF ok THEN "summary" ELSE Pass1ErrorSummary]
    /\ pc' = [pc EXCEPT ![r] = "pass2"]
    /\ candidates' = [candidates EXCEPT ![r] = <<>>]
    /\ memory_read' = [memory_read EXCEPT ![r] = "none"]
    /\ memory_texts' = [memory_texts EXCEPT ![r] = "None"]
    /\ UNCHANGED <<clock, budgetVars, ctx, ret, lastTrueRet, check, service, callVars>>

\* the pass 2 chain ends; steps 4 to 6 run without suspending, and the call
\* returns the suggestion or propagates the exception of is_action_safe; the
\* endpoint of the service adds a background task for a returned suggestion
\* with should_suggest = True
Pass2Done(r, event) ==
    /\ pc[r] = "pass2"
    /\ \E s4 \in {suggestion_from_pass2(event)} :
       \E s5 \in {safety_stage(s4, ctx[r].devices)} :
       \E s6 \in {budget_stage(s5.suggestion, clock, last_suggestion_time, cooldown_threshold)} :
          IF s5.raised
          THEN /\ ret' = [outcome |-> "raised", ctx |-> ctx[r], memory_read |-> "none",
                          pass1_output |-> pass1_output[r], event |-> event,
                          suggestion |-> s4, at |-> clock,
                          lastBefore |-> last_suggestion_time,
                          trueBefore |-> lastTrueRet, consulted |-> FALSE]
               /\ UNCHANGED <<last_suggestion_time, lastGranted, lastTrueRet, service>>
          ELSE /\ ret' = [outcome |-> "returned", ctx |-> ctx[r], memory_read |-> "none",
                          pass1_output |-> pass1_output[r], event |-> event,
                          suggestion |-> s6.suggestion, at |-> clock,
                          lastBefore |-> last_suggestion_time,
                          trueBefore |-> lastTrueRet, consulted |-> s6.consulted]
               /\ last_suggestion_time' = s6.last
               /\ lastGranted' = IF s6.consulted /\ s6.allowed THEN At(clock) ELSE lastGranted
               /\ lastTrueRet' = IF s6.suggestion.should_suggest THEN At(clock) ELSE lastTrueRet
               /\ service' = IF service.startup = "ok" /\ s6.suggestion.should_suggest
                             THEN [service EXCEPT
                                      !.forward_scheduled = TRUE,
                                      !.tasks = Append(@, s6.suggestion.should_suggest),
                                      !.returned_true = @ + 1]
                             ELSE service
    /\ pc' = [pc EXCEPT ![r] = "idle"]
    /\ ctx' = [ctx EXCEPT ![r] = NoContext]
    /\ pass1_output' = [pass1_output EXCEPT ![r] = "None"]
    /\ UNCHANGED <<clock, cooldown_threshold, allowObs, pass1Vars, check, callVars>>

Next ==
    \/ Tick(MaxClock)
    \/ \E r \in Requests, c \in Contexts, m \in MemoryReads : Start(r, c, m)
    \/ \E r \in Requests, ok \in BOOLEAN : Pass1Done(r, ok)
    \/ \E r \in Requests, event \in Pass2Events : Pass2Done(r, event)

Spec == Init /\ [][Next]_vars

(***************************************************************************)
(* The validator and the orchestrator side by side                         *)
(***************************************************************************)
PolicyInit == Init \/ SafetyInit
PolicyNext ==
    \/ CheckSafe
    \/ check.phase = "none" /\ Tick(MaxClock)
    \/ check.phase = "none" /\ \E r \in Requests, c \in Contexts, m \in MemoryReads : Start(r, c, m)
    \/ check.phase = "none" /\ \E r \in Requests, ok \in BOOLEAN : Pass1Done(r, ok)
    \/ check.phase = "none" /\ \E r \in Requests, event \in Pass2Events : Pass2Done(r, event)
SpecPolicy == PolicyInit /\ [][PolicyNext]_vars

(***************************************************************************)
(* The THINK service: startup, then the endpoint in front of the           *)
(* orchestrator                                                            *)
(***************************************************************************)
ServiceInit ==
    /\ clock = 0
    /\ cooldown_threshold = DefaultCooldown
    /\ FreshBudget
    /\ IdleOrchestrator
    /\ check = NoCheck
    /\ service = NoService
    /\ IdleCalls

\* startup_event runs once, before any request is served
Startup(outcome) ==
    /\ service.startup = "pending"
    /\ service' = [service EXCEPT !.startup = outcome,
                                  !.orchestrator = startup_event(outcome)]
    /\ UNCHANGED <<clock, budgetVars, orchVars, check, callVars>>

\* the endpoint answers 503 when app.state.orchestrator is None
Reject ==
    /\ service.startup # "pending"
    /\ service.orchestrator = "none"
    /\ service' = [service EXCEPT !.rejected = TRUE]
    /\ UNCHANGED <<clock, budgetVars, orchVars, check, callVars>>

\* a background task runs forward_suggestion on the suggestion it was handed
Forward ==
    /\ service.tasks # <<>>
    /\ service' = [service EXCEPT !.tasks = Tail(@),
                                  !.posts = @ + forward_suggestion(Head(service.tasks))]
    /\ UNCHANGED <<clock, budgetVars, orchVars, check, callVars>>

ServiceNext ==
    \/ \E outcome \in StartupOutcomes : Startup(outcome)
    \/ Reject
    \/ Forward
    \/ Tick(MaxClock)
    \/ \E r \in Requests, c \in Contexts, m \in MemoryReads : Start(r, c, m)
    \/ \E r \in Requests, ok \in BOOLEAN : Pass1Done(r, ok)
    \/ \E r \in Requests, event \in Pass2Events : Pass2Done(r, event)

SpecService == ServiceInit /\ [][ServiceNext]_vars

(***************************************************************************)
(* The feedback method on its own: inputs drawn from bounded sets          *)
(***************************************************************************)
FeedbackSuggestions ==
    {Suggestion(TRUE, "dim the light", "user is stressed", DimLight, 9),
     Suggestion(TRUE, "take a break", "long session", NoAction, DefaultConfidence),
     Suggestion(FALSE, "heat the room", SafetyFailedReason, HotAc, 9),
     Suggestion(FALSE, "cool the room", BudgetExhaustedReason, MildAc, 7),
     Suggestion(FALSE, "None", "llm_parse_failed", NoAction, DefaultConfidence)}

FeedbackContexts ==
    {[CtxHome EXCEPT !.biometric = b] :
        b \in {NoBiometric, BiometricContext("None", "high"),
               BiometricContext("post_workout", "high")}}

FeedbackInit ==
    /\ clock = 0
    /\ cooldown_threshold = DefaultCooldown
    /\ FreshBudget
    /\ IdleOrchestrator
    /\ check = NoCheck
    /\ service = NoService
    /\ rule_call = NoRuleCall
    /\ pair = NoPair
    /\ \E sg \in FeedbackSuggestions, c \in FeedbackContexts, accepted \in BOOLEAN,
          store \in StoreWrites :
           feedback = [phase |-> "drawn", suggestion |-> sg, ctx |-> c, accepted |-> accepted,
                       store |-> store, writes |-> <<>>, outcome |-> "none"]

StoreUserConfirmation ==
    /\ feedback.phase = "drawn"
    /\ \E done \in {store_user_confirmation(feedback.suggestion, feedback.ctx,
                                              feedback.accepted, feedback.store)} :
          feedback' = [feedback EXCEPT !.phase = "done", !.writes = done.writes,
                           !.outcome = IF done.raised THEN "raised" ELSE "returned"]
    /\ UNCHANGED <<clock, budgetVars, orchVars, check, service, rule_call, pair>>

FeedbackNext == StoreUserConfirmation

SpecFeedback == FeedbackInit /\ [][FeedbackNext]_vars

(***************************************************************************)
(* The rule engine on its own: packets drawn from bounded sets             *)
(***************************************************************************)
LightA == <<"light", "_", "a">>
LightB == <<"light", "_", "b">>
GeyserId == <<"geyser">>

MaxDevices == 2

RuleDevices ==
    {Dev(LightA, TRUE), Dev(LightA, FALSE), Dev(LightB, TRUE), Dev(LightId, TRUE),
     Dev(SpeakerId, FALSE), Dev(HeaterId, FALSE), Dev(GeyserId, TRUE), Dev(AcId, TRUE)}

RuleDeviceLists == UNION {[1..n -> RuleDevices] : n \in 0..MaxDevices}

RuleContexts ==
    {ContextPacket(b, l, e, ds) :
        b \in {NoBiometric, BiometricContext("None", "None"),
               BiometricContext("post_workout", "high"), BiometricContext("idle", "low"),
               BiometricContext("post_workout", "low"), BiometricContext("idle", "high")},
        l \in {NoLocation, LocationContext("home"), LocationContext("office")},
        e \in {NoEnvironment, EnvironmentContext("None"), EnvironmentContext("occupied"),
               EnvironmentContext("vacant")},
        ds \in RuleDeviceLists}

RuleInit ==
    /\ clock = 0
    /\ cooldown_threshold = DefaultCooldown
    /\ FreshBudget
    /\ IdleOrchestrator
    /\ check = NoCheck
    /\ service = NoService
    /\ feedback = NoFeedback
    /\ pair = NoPair
    /\ \E c \in RuleContexts : rule_call = [phase |-> "drawn", ctx |-> c, result |-> <<>>]

CandidatesFromContext ==
    /\ rule_call.phase = "drawn"
    /\ rule_call' = [rule_call EXCEPT !.phase = "done",
                                      !.result = candidates_from_context(rule_call.ctx)]
    /\ UNCHANGED <<clock, budgetVars, orchVars, check, service, feedback, pair>>

RuleNext == CandidatesFromContext

SpecRules == RuleInit /\ [][RuleNext]_vars

(***************************************************************************)
(* process_context on two packets that differ in the capabilities they     *)
(* arrive with: same capability map, same pass 2 event, same throttle      *)
(***************************************************************************)
\* process_context from the inbound packet to what the call gives back, for a
\* memory read that succeeds: enrichment, then steps 4 to 6 on the pass 2 event
process_context(c, event, now, last, threshold) ==
    LET enriched == enrich_context_with_capabilities(c, device_capabilities)
        s5 == safety_stage(suggestion_from_pass2(event), enriched.devices)
        s6 == budget_stage(s5.suggestion, now, last, threshold)
    IN  IF s5.raised
        THEN [outcome |-> "raised", suggestion |-> NoSuggestion, last |-> last]
        ELSE [outcome |-> "returned", suggestion |-> s6.suggestion, last |-> s6.last]

\* the packet with the capabilities given for the light, the AC and the speaker
WithInbound(c, light, ac, speaker) ==
    [c EXCEPT !.devices =
        [i \in 1..Len(c.devices) |->
            [c.devices[i] EXCEPT !.capabilities =
                IF c.devices[i].id = LightId THEN light
                ELSE IF c.devices[i].id = AcId THEN ac
                ELSE IF c.devices[i].id = SpeakerId THEN speaker
                ELSE @]]]

InboundCaps == {EmptyCaps, WideCaps}
InboundPackets ==
    {WithInbound(CtxHome, light, ac, speaker) :
        light \in InboundCaps, ac \in InboundCaps, speaker \in InboundCaps}

InboundInit ==
    /\ clock \in 0..MaxClock
    /\ cooldown_threshold \in Cooldowns
    /\ last_suggestion_time \in {NoTime} \cup {At(t) : t \in 0..clock}
    /\ lastGranted = last_suggestion_time
    /\ allowObs = NoAllow
    /\ IdleOrchestrator
    /\ check = NoCheck
    /\ service = ReadyService
    /\ rule_call = NoRuleCall
    /\ feedback = NoFeedback
    /\ \E first \in InboundPackets, second \in InboundPackets, event \in Pass2Events :
          pair = [phase |-> "drawn", first |-> first, second |-> second, event |-> event,
                  results |-> <<>>]

\* both packets are processed from the same throttle state
ProcessPair ==
    /\ pair.phase = "drawn"
    /\ pair' = [pair EXCEPT
                   !.phase = "done",
                   !.results =
                       <<process_context(pair.first, pair.event, clock, last_suggestion_time,
                                         cooldown_threshold),
                         process_context(pair.second, pair.event, clock, last_suggestion_time,
                                         cooldown_threshold)>>]
    /\ UNCHANGED <<clock, budgetVars, orchVars, check, service, rule_call, feedback>>

InboundNext == ProcessPair

SpecInbound == InboundInit /\ [][InboundNext]_vars

(***************************************************************************)
(* Properties of process_context                                           *)
(***************************************************************************)
Returned == ret.outcome = "returned"

\* The devices of the returned call's packet with the capability map's entry
\* for each id, an empty spec where the map has none
EnrichedDevices ==
    [i \in 1..Len(ret.ctx.devices) |->
        LET id == ret.ctx.devices[i].id IN
        DeviceState(id, ret.ctx.devices[i].on,
                    IF \E j \in 1..Len(device_capabilities) : device_capabilities[j][1] = id
                    THEN Lookup(device_capabilities, id) ELSE EmptyCaps)]

\* the reasoner's pass 2 output of the returned call is a should_suggest = true
\* suggestion the validator has nothing against
PolicySafeProposal ==
    /\ ret.event.kind = "ok"
    /\ ret.event.out.should_suggest
    /\ ret.event.out.action.some => is_action_safe(ret.event.out.action, EnrichedDevices) = "safe"

\* C1: a returned suggestion with should_suggest = true and an action carries
\* an action the validator accepts against the enriched devices of the packet.
C1_ReturnedActionAccepted ==
    (Returned /\ ret.suggestion.should_suggest /\ ret.suggestion.action.some)
    => is_action_safe(ret.suggestion.action, EnrichedDevices) = "safe"

C1_Witness ==
    /\ Returned
    /\ ret.suggestion.should_suggest
    /\ ret.suggestion.action = MildAc
    /\ ret.lastBefore # NoTime

\* the id holds one of the words router, refrigerator, security_camera
ProtectedId(id) ==
    \/ Contains(<<"router">>, id)
    \/ Contains(<<"refrigerator">>, id)
    \/ Contains(<<"security", "_", "camera">>, id)

\* C3: an action on a device whose id holds router, refrigerator or
\* security_camera is unsafe whatever the capabilities, command and parameters,
\* and process_context never returns should_suggest = true with such an action.
C3_BlacklistAbsolute ==
    /\ (check.phase = "done" /\ ProtectedId(check.action.device_id))
       => check.result = "unsafe"
    /\ (Returned /\ ret.suggestion.action.some /\ ProtectedId(ret.suggestion.action.device_id))
       => ~ret.suggestion.should_suggest

\* a whitelisted command with an in-range parameter on a blacklisted device
C3_Witness ==
    /\ check.phase = "done"
    /\ check.action = ActionCommand(CameraId, "set", << <<"p", IntV(16)>> >>)
    /\ Len(check.devices) = 2
    /\ check.devices[1] =
          DeviceState(CameraId, TRUE,
                      Caps({"functions", "parameters"}, <<"on", "set">>, << <<"p", RangeSpec>> >>))
    /\ check.result = "unsafe"

\* C6: with a cooldown above zero, an invocation returns should_suggest = true
\* only if at least the cooldown has passed since the latest earlier return
\* with should_suggest = true, however the invocations interleave.
C6_OneGrantPerWindow ==
    (/\ Returned /\ ret.suggestion.should_suggest
     /\ cooldown_threshold > 0 /\ ret.trueBefore # NoTime)
    => ret.at - TimeOf(ret.trueBefore) >= cooldown_threshold

\* two invocations in flight; one returned true and, at the same clock reading,
\* the other is denied by the throttle, a further invocation being suspended in pass 2
C6_Witness ==
    /\ Returned
    /\ cooldown_threshold > 0
    /\ PolicySafeProposal
    /\ ret.trueBefore = At(ret.at)
    /\ ~ret.suggestion.should_suggest
    /\ \E r \in Requests : pc[r] = "pass2"

\* C7: with the default cooldown of 10 minutes, a policy-safe proposal is
\* returned with should_suggest = true when nothing was allowed before, and one
\* minute after a call that returned true it is returned with should_suggest =
\* false and the throttle's reason, which is neither the reasoner's reason nor
\* the safety reason.
C7_CooldownScenario ==
    (Returned /\ cooldown_threshold = DefaultCooldown /\ PolicySafeProposal) =>
        /\ ret.trueBefore = NoTime => ret.suggestion.should_suggest
        /\ ret.trueBefore = At(ret.at - 1) =>
              /\ ~ret.suggestion.should_suggest
              /\ ret.suggestion.reason = BudgetExhaustedReason
              /\ ret.suggestion.reason # ret.event.out.reason
              /\ ret.suggestion.reason # SafetyFailedReason

C7_Witness ==
    /\ Returned
    /\ cooldown_threshold = DefaultCooldown
    /\ ret.event.kind = "ok"
    /\ ret.event.out.should_suggest
    /\ ret.event.out.action = DimLight
    /\ ret.trueBefore = At(ret.at - 1)
    /\ ~ret.suggestion.should_suggest
    /\ ret.suggestion.reason = BudgetExhaustedReason

\* C8: a proposal whose action the validator rejects is returned with
\* should_suggest = false and the safety reason, in every state of the throttle.
C8_RejectedActionDenied ==
    (/\ Returned /\ ret.event.kind = "ok" /\ ret.event.out.action.some
     /\ is_action_safe(ret.event.out.action, EnrichedDevices) = "unsafe")
    => /\ ~ret.suggestion.should_suggest
       /\ ret.suggestion.reason = SafetyFailedReason

\* set_temperature = 90 on the AC, proposed when the cooldown has expired
C8_Witness ==
    /\ Returned
    /\ ret.event.kind = "ok"
    /\ ret.event.out.should_suggest
    /\ ret.event.out.action = HotAc
    /\ cooldown_threshold > 0
    /\ ret.lastBefore # NoTime
    /\ ret.at - TimeOf(ret.lastBefore) >= cooldown_threshold
    /\ ret.suggestion.reason = SafetyFailedReason
    /\ last_suggestion_time = ret.lastBefore

\* C9: when pass 2 fails, by a failure of the call or of the parsing of its
\* output, the returned suggestion has should_suggest = false and confidence 0.0.
C9_Pass2FailureHardDeny ==
    (Returned /\ ret.event.kind \in FailureKinds)
    => /\ ~ret.suggestion.should_suggest
       /\ ret.suggestion.confidence = DenyConfidence

\* the reason process_context returns when pass 2 fails in the given way
ReasonReturnedFor(kind) == suggestion_from_pass2([kind |-> kind, out |-> NoSuggestion]).reason

\* C10: when pass 2 fails, the returned reason tells the kind of failure: it is
\* not the reason returned for the other kind of failure.
C10_FailureKindsDistinguished ==
    (Returned /\ ret.event.kind \in FailureKinds)
    => \A other \in FailureKinds \ {ret.event.kind} :
          ret.suggestion.reason # ReasonReturnedFor(other)

\* a Suggestion whose fields are of the schema's types and ranges
WellFormed(sg) ==
    /\ sg.should_suggest \in BOOLEAN
    /\ sg.confidence \in 0..MaxConfidence

\* C11: whatever fails (the memory read, pass 1, pass 2, the policy check), a
\* process_context call ends by returning a well-formed Suggestion; it never
\* ends by propagating an exception.
C11_AlwaysReturnsSuggestion ==
    ret.outcome # "none" => (ret.outcome = "returned" /\ WellFormed(ret.suggestion))

\* what steps 4 to 6 make of a pass 2 event, for the devices, the clock reading
\* and the throttle state given
StagesAfterPass2(event, devices, now, last, threshold) ==
    LET s5 == safety_stage(suggestion_from_pass2(event), devices) IN
    [raised |-> s5.raised,
     suggestion |-> budget_stage(s5.suggestion, now, last, threshold).suggestion]

\* C12: after a failure of pass 1 the call goes on with the fixed error summary:
\* pass 2 is invoked with it, the call ends as steps 4 to 6 end it for the pass 2
\* event whatever pass 1 did, and a policy-safe proposal the throttle allows is
\* returned with should_suggest = true.
C12_Pass1FailureNonFatal ==
    /\ \A r \in Requests : pc[r] = "pass2" => pass1_output[r] \in {"summary", Pass1ErrorSummary}
    /\ (ret.outcome # "none" /\ ret.pass1_output = Pass1ErrorSummary) =>
          /\ ret.event \in Pass2Events
          /\ LET after == StagesAfterPass2(ret.event, EnrichedDevices, ret.at, ret.lastBefore,
                                           cooldown_threshold)
             IN  IF after.raised THEN ret.outcome = "raised"
                 ELSE Returned /\ ret.suggestion = after.suggestion
          /\ (Returned /\ PolicySafeProposal /\ ret.lastBefore = NoTime)
                => ret.suggestion.should_suggest

\* pass 1 failed and the light is dimmed all the same
C12_Witness ==
    /\ Returned
    /\ ret.pass1_output = Pass1ErrorSummary
    /\ ret.suggestion.should_suggest
    /\ ret.suggestion.action = DimLight

\* C14: when the memory read fails, the call goes on and pass 1 is handed the
\* memory text it is handed for an empty store.
C14_ReadFailureAsEmptyMemory ==
    /\ \A r \in Requests :
          (pc[r] = "pass1" /\ memory_read[r] \in MemoryReadFailures)
          => memory_texts[r] = get_relevant_info("empty").text
    /\ ret.outcome = "raised" => ret.memory_read \notin MemoryReadFailures

\* C19: steps 5 and 6 change should_suggest and reason only: a suggestion that
\* the policy check or the throttle suppresses is returned with the reasoner's
\* action, suggestion_text and confidence.
C19_SuppressionKeepsContent ==
    (Returned /\ ret.event.kind = "ok") =>
        /\ ret.suggestion.action = ret.event.out.action
        /\ ret.suggestion.suggestion_text = ret.event.out.suggestion_text
        /\ ret.suggestion.confidence = ret.event.out.confidence

\* the reboot of the router, suppressed by the policy check
C19_Witness ==
    /\ Returned
    /\ ret.event.kind = "ok"
    /\ ret.event.out.should_suggest
    /\ ~ret.suggestion.should_suggest
    /\ ret.suggestion.reason = SafetyFailedReason
    /\ ret.suggestion.action = ActionCommand(RouterId, "reboot", <<>>)
    /\ ret.suggestion.suggestion_text = "restart the router"
    /\ ret.suggestion.confidence = 9

\* the returned call was denied before step 6: by the reasoner, by a failure of
\* pass 2 or by the policy check
DeniedBeforeThrottle ==
    \/ ret.event.kind \in FailureKinds
    \/ ret.event.kind = "ok" /\ ~ret.event.out.should_suggest
    \/ /\ ret.event.kind = "ok" /\ ret.event.out.action.some
       /\ is_action_safe(ret.event.out.action, EnrichedDevices) = "unsafe"

\* C20: a call that the reasoner, a pass 2 failure or the policy check denies
\* does not consult the throttle and leaves last_suggestion_time as it was.
C20_DeniesLeaveThrottle ==
    (Returned /\ DeniedBeforeThrottle) =>
        /\ ~ret.consulted
        /\ last_suggestion_time = ret.lastBefore

\* pass 2 fails when the cooldown has expired: the timestamp stays
C20_Witness ==
    /\ Returned
    /\ ret.event.kind = "parse_failed"
    /\ cooldown_threshold > 0
    /\ ret.lastBefore # NoTime
    /\ ret.at - TimeOf(ret.lastBefore) >= cooldown_threshold
    /\ last_suggestion_time = ret.lastBefore

(***************************************************************************)
(* Properties of the service                                               *)
(***************************************************************************)
\* C17: when loading the capability configuration fails at startup, the service
\* has no orchestrator: no packet is handed to process_context, no call is in
\* flight or has returned, and no forwarding is scheduled.
C17_ConfigFailureFatal ==
    service.startup \in ConfigFailures =>
        /\ service.orchestrator = "none"
        /\ ~service.processed
        /\ ~service.forward_scheduled
        /\ \A r \in Requests : pc[r] = "idle"
        /\ ret = NoRet

\* devices.json is missing and a request has been answered 503
C17_Witness ==
    /\ service.startup = "config_missing"
    /\ service.rejected
    /\ ~service.processed

\* C30: the service posts a suggestion to the ACTION module only for a request
\* whose process_context returned should_suggest = true, and at most once for
\* each such request; after requests that only returned suppressed suggestions
\* nothing is queued and nothing has been posted.
C30_ForwardOnlyAccepted ==
    /\ service.posts + Len(service.tasks) <= service.returned_true
    /\ \A i \in 1..Len(service.tasks) : service.tasks[i]
    /\ lastTrueRet = NoTime => (service.posts = 0 /\ service.tasks = <<>>)
    /\ (service.startup = "ok" /\ Returned /\ ret.suggestion.should_suggest)
          => service.returned_true > 0

\* one suggestion has been posted, and the request after it, which the throttle
\* suppressed, has queued nothing
C30_Witness ==
    /\ service.startup = "ok"
    /\ service.posts = 1
    /\ service.tasks = <<>>
    /\ Returned
    /\ ret.event.kind = "ok" /\ ret.event.out.should_suggest
    /\ ~ret.suggestion.should_suggest
    /\ ret.suggestion.reason = BudgetExhaustedReason

(***************************************************************************)
(* Properties of the feedback method                                       *)
(***************************************************************************)
\* C13: a call of store_user_confirmation in which the store's write fails
\* returns; it does not raise.
C13_WriteFailureAbsorbed ==
    (feedback.phase = "done" /\ feedback.store \in StoreWriteFailures)
    => feedback.outcome = "returned"

\* C18: every call of store_user_confirmation on an orchestrator that has a
\* memory store, accepted or rejected, with or without an action, attempts
\* exactly one write, of a fact that tells the outcome.
C18_OneWritePerCall ==
    (feedback.phase = "done" /\ feedback.store # "absent") =>
        /\ Len(feedback.writes) = 1
        /\ feedback.writes[1].accepted = feedback.accepted
        /\ feedback.writes[1].suggestion_text = feedback.suggestion.suggestion_text

(***************************************************************************)
(* Properties of the rule engine                                           *)
(***************************************************************************)
\* The symbols of the light ids in the order of their first characters; no
\* symbol is a prefix of another, so comparing ids symbol by symbol is
\* comparing the strings character by character.
SymbolOrder == <<"_", "a", "b", "light", "smart">>
SymbolRank(x) == CHOOSE i \in 1..Len(SymbolOrder) : SymbolOrder[i] = x

\* x < y on strings
StrLess(x, y) ==
    \/ Len(x) < Len(y) /\ SubSeq(y, 1, Len(x)) = x
    \/ \E i \in 1..Len(x) :
          /\ i <= Len(y)
          /\ SubSeq(x, 1, i - 1) = SubSeq(y, 1, i - 1)
          /\ SymbolRank(x[i]) < SymbolRank(y[i])

\* seq is sorted(set(ids))
IsSortedSetOf(seq, ids) ==
    /\ {seq[i] : i \in 1..Len(seq)} = ids
    /\ \A i, j \in 1..Len(seq) : i < j => StrLess(seq[i], seq[j])

\* the ids of the devices of the packet that are on and hold "light"
LightsOn(c) ==
    {c.devices[i].id : i \in {k \in 1..Len(c.devices) :
                                 c.devices[k].on /\ Contains(<<"light">>, c.devices[k].id)}}

\* C15: for a packet with occupancy vacant and a device that is on and whose id
\* holds "light", the candidates hold exactly one turn_off_room_lights, and its
\* targets are the sorted set of the ids of those devices.
C15_LightsCandidateSortedSet ==
    (/\ rule_call.phase = "done"
     /\ rule_call.ctx.environment.some /\ rule_call.ctx.environment.occupancy = "vacant"
     /\ LightsOn(rule_call.ctx) # {})
    => LET offs == SelectSeq(rule_call.result,
                             LAMBDA k : k.action_type = "turn_off_room_lights")
       IN  /\ Len(offs) = 1
           /\ IsSortedSetOf(offs[1].target_devices, LightsOn(rule_call.ctx))

\* the devices of a packet whose id has no entry in the capability map
Unmapped(c) ==
    {i \in 1..Len(c.devices) : ~HasKey(device_capabilities, c.devices[i].id)}

\* C26: after enrichment every device of the packet without an entry in the
\* capability map has the empty capability spec, and a call whose pass 2
\* proposes an action on such a device returns should_suggest = false.
C26_UnmappedDeviceRejected ==
    /\ \A r \in Requests :
          pc[r] # "idle" =>
              \A i \in Unmapped(ctx[r]) : ctx[r].devices[i].capabilities = EmptyCaps
    /\ ret.outcome # "none" =>
          /\ \A i \in Unmapped(ret.ctx) : ret.ctx.devices[i].capabilities = EmptyCaps
          /\ (/\ ret.event.kind = "ok" /\ ret.event.out.action.some
              /\ \E i \in Unmapped(ret.ctx) :
                     ret.ctx.devices[i].id = ret.event.out.action.device_id)
             => (Returned /\ ~ret.suggestion.should_suggest)

\* the reasoner asks for music on the speaker, which the map does not hold
C26_Witness ==
    /\ Returned
    /\ ret.event.kind = "ok" /\ ret.event.out.should_suggest
    /\ ret.event.out.action = ActionCommand(SpeakerId, "on", <<>>)
    /\ \E i \in Unmapped(ret.ctx) : ret.ctx.devices[i].id = SpeakerId
    /\ ~ret.suggestion.should_suggest
    /\ ret.suggestion.reason = SafetyFailedReason

\* C27: a returned suggestion has should_suggest = true only if pass 2 ended
\* without failure with should_suggest = true, and the throttle was consulted,
\* allowed the call and recorded its clock reading.
C27_NeverUpgradesDeny ==
    (Returned /\ ret.suggestion.should_suggest) =>
        /\ ret.event.kind = "ok"
        /\ ret.event.out.should_suggest
        /\ ret.consulted
        /\ (ret.lastBefore = NoTime \/ ret.at - TimeOf(ret.lastBefore) >= cooldown_threshold)
        /\ last_suggestion_time = At(ret.at)

\* a suggestion without action is let through by a throttle that has a record
C27_Witness ==
    /\ Returned
    /\ ret.suggestion.should_suggest
    /\ ret.suggestion.action = NoAction
    /\ ret.event.out.should_suggest
    /\ ret.lastBefore # NoTime
    /\ last_suggestion_time = At(ret.at)

\* the two packets are the same but for the capabilities of their devices
DifferInCapabilitiesOnly(a, b) ==
    /\ a.biometric = b.biometric /\ a.location = b.location /\ a.environment = b.environment
    /\ Len(a.devices) = Len(b.devices)
    /\ \A i \in 1..Len(a.devices) :
          a.devices[i].id = b.devices[i].id /\ a.devices[i].on = b.devices[i].on

\* C29: two calls of process_context on packets that differ only in the
\* capabilities of their devices, with the same capability map, the same pass 2
\* event and the same throttle state, end the same way with the same Suggestion
\* and leave the throttle in the same state.
C29_InboundCapabilitiesIgnored ==
    (pair.phase = "done" /\ DifferInCapabilitiesOnly(pair.first, pair.second))
    => pair.results[1] = pair.results[2]

\* the AC arrives with a range that admits 90 degrees in one packet and without
\* capabilities in the other; heating to 90 is denied for both
C29_Witness ==
    /\ pair.phase = "done"
    /\ pair.first = CtxSpoofed
    /\ pair.second = CtxHome
    /\ pair.event.kind = "ok" /\ pair.event.out.should_suggest
    /\ pair.event.out.action = HotAc
    /\ pair.results[1].outcome = "returned"
    /\ ~pair.results[1].suggestion.should_suggest
    /\ pair.results[1].suggestion.reason = SafetyFailedReason
    /\ pair.results[2] = pair.results[1]

\* a finished invocation has the result of pass 1 and the event that ended pass 2
FinishedRanBothPasses ==
    ret.outcome # "none" =>
        /\ ret.pass1_output \in {"summary", Pass1ErrorSummary}
        /\ ret.event.kind # "none"

\* what a step does to an invocation: it enters pass 1 from idle, leaves pass 1
\* for pass 2 with a summary or the error summary, and leaves pass 2 by ending;
\* a failed pass 2 ends with a returned deny
PassesInOrder ==
    \A r \in Requests :
        /\ pc'[r] # pc[r] =>
              <<pc[r], pc'[r]>> \in {<<"idle", "pass1">>, <<"pass1", "pass2">>, <<"pass2", "idle">>}
        /\ (pc[r] = "pass1" /\ pass1_output'[r] # pass1_output[r]) =>
              /\ pc'[r] = "pass2"
              /\ pass1_output'[r] \in {"summary", Pass1ErrorSummary}
        /\ pc'[r] = "pass2" => pass1_output'[r] \in {"summary", Pass1ErrorSummary}
        /\ (pc[r] = "pass2" /\ pc'[r] = "idle") =>
              /\ ret'.outcome \in {"returned", "raised"}
              /\ ret'.event.kind \in FailureKinds =>
                    (ret'.outcome = "returned" /\ ~ret'.suggestion.should_suggest)

\* C25: every invocation of process_context calls pass 1 once and then pass 2
\* once, pass 2 starting after pass 1 has returned or failed; a failure of a
\* pass is replaced by its default and the pass is not called again.
C25_EachPassOnceInOrder == []FinishedRanBothPasses /\ [][PassesInOrder]_vars

\* the order of the passes alone
C25_OrderOfPasses == [][PassesInOrder]_vars

\* the ids of the devices of the packet that a rule targets
RuleTargets(action_type, c) ==
    LET matches(d) ==
            CASE action_type = "turn_off_room_lights" -> d.on /\ Contains(<<"light">>, d.id)
              [] action_type = "prepare_bath" ->
                    Contains(<<"geyser">>, d.id) \/ Contains(<<"water", "_", "heater">>, d.id)
              [] action_type = "relaxation_routine" ->
                    Contains(<<"light">>, d.id) \/ Contains(<<"speaker">>, d.id)
    IN  {c.devices[i].id : i \in {k \in 1..Len(c.devices) : matches(c.devices[k])}}

\* the state condition of a rule; a missing sub-record makes it false
RuleCondition(action_type, c) ==
    CASE action_type = "turn_off_room_lights" ->
            c.environment.some /\ c.environment.occupancy = "vacant"
      [] action_type = "prepare_bath" ->
            /\ c.biometric.some /\ c.biometric.activity_status = "post_workout"
            /\ c.location.some /\ c.location.place = "home"
      [] action_type = "relaxation_routine" ->
            c.biometric.some /\ c.biometric.stress_level = "high"

RuleOrder == <<"turn_off_room_lights", "prepare_bath", "relaxation_routine">>

\* C24: the action types of the candidates are the subsequence of
\* turn_off_room_lights, prepare_bath, relaxation_routine of the rules whose
\* condition holds and that target a device of the packet; every candidate's
\* targets are the ids its rule matches, and none has an empty target list.
C24_CandidatesAreFiredRules ==
    rule_call.phase = "done" =>
        LET c == rule_call.ctx
            types == [i \in 1..Len(rule_call.result) |-> rule_call.result[i].action_type]
        IN  /\ types = SelectSeq(RuleOrder,
                                 LAMBDA t : RuleCondition(t, c) /\ RuleTargets(t, c) # {})
            /\ \A i \in 1..Len(rule_call.result) :
                    /\ Len(rule_call.result[i].target_devices) > 0
                    /\ {rule_call.result[i].target_devices[k] :
                            k \in 1..Len(rule_call.result[i].target_devices)}
                       = RuleTargets(types[i], c)

\* a packet without location: the bath rule is skipped, the other two fire
C24_Witness ==
    /\ rule_call.phase = "done"
    /\ ~rule_call.ctx.location.some
    /\ rule_call.ctx.biometric.some /\ rule_call.ctx.biometric.activity_status = "post_workout"
    /\ RuleTargets("prepare_bath", rule_call.ctx) # {}
    /\ Len(rule_call.result) = 2
    /\ rule_call.result[1].action_type = "turn_off_room_lights"
    /\ rule_call.result[2].action_type = "relaxation_routine"

(***************************************************************************)
(* Properties of the validator                                             *)
(***************************************************************************)
\* What the specification asks of one supplied parameter whose name is declared
ExactlyHHMM(text) ==
    /\ Len(text) = 5
    /\ text[1] \in Digits /\ text[2] \in Digits /\ text[3] = ":"
    /\ text[4] \in Digits /\ text[5] \in Digits

IsRangeShape(spec) ==
    spec.t = "list" /\ Len(spec.items) = 2 /\ spec.items[1].t = "int"
IsEnumShape(spec) ==
    spec.t = "list" /\ Len(spec.items) > 0 /\ spec.items[1].t = "str"

SatisfiesSpec(value, spec) ==
    IF IsRangeShape(spec) THEN
        /\ value.t = "int" /\ spec.items[2].t = "int"
        /\ spec.items[1].n <= value.n /\ value.n <= spec.items[2].n
    ELSE IF IsEnumShape(spec) THEN \E i \in 1..Len(spec.items) : spec.items[i] = value
    ELSE IF spec = TokenSpec(HHMM) THEN ExactlyHHMM(PyStr(value))
    ELSE TRUE

Accepted(action, devices) ==
    /\ \E i \in 1..Len(devices) : devices[i].id = action.device_id
    /\ \A bad \in SAFE_DEVICE_BLACKLIST : ~Contains(bad, action.device_id)
    /\ LET caps == DevMapGet(action.device_id, devices).capabilities IN
        /\ caps.keys # {}
        /\ "functions" \in caps.keys
        /\ \E i \in 1..Len(caps.functions) : caps.functions[i] = action.command
        /\ \A i \in 1..Len(action.params) :
              ("parameters" \in caps.keys /\ HasKey(caps.parameters, action.params[i][1]))
              => SatisfiesSpec(action.params[i][2], Lookup(caps.parameters, action.params[i][1]))

\* C2: is_action_safe returns true if and only if the device is in the set, its
\* id holds no blacklisted substring, its capability spec is non-empty, the
\* command is supported and every supplied declared parameter satisfies its spec
\* (inclusive numeric bounds, exact enum membership, the HH:MM pattern).
C2_AcceptsIffConditions ==
    check.phase = "done" =>
        (check.result = "safe" <=> Accepted(check.action, check.devices))

\* the device of the checked action is among the supplied device states
KnownDevice == InDevMap(check.action.device_id, check.devices)

\* the parameter specs the capability spec of the checked action's device declares
DeclaredSpecs ==
    available_params(DevMapGet(check.action.device_id, check.devices).capabilities)
Declared(i) == HasKey(DeclaredSpecs, check.action.params[i][1])
SpecOf(i) == Lookup(DeclaredSpecs, check.action.params[i][1])

\* the action without its i-th parameter
WithoutParam(action, i) ==
    [action EXCEPT !.params = SubSeq(@, 1, i - 1) \o SubSeq(@, i + 1, Len(@))]

IsTwoNumberRange(spec) ==
    /\ spec.t = "list" /\ Len(spec.items) = 2
    /\ spec.items[1].t = "int" /\ spec.items[2].t = "int"

\* C21: for a supplied parameter declared with a range [min, max] of two numbers,
\* a numeric value with min <= value <= max leaves the verdict what it is without
\* the parameter, and a value that is not numeric, below min or above max makes
\* the action unsafe.
C21_RangeInclusive ==
    (check.phase = "done" /\ KnownDevice) =>
        \A i \in 1..Len(check.action.params) :
            (Declared(i) /\ IsTwoNumberRange(SpecOf(i))) =>
                LET v == check.action.params[i][2] IN
                IF /\ v.t = "int"
                   /\ SpecOf(i).items[1].n <= v.n /\ v.n <= SpecOf(i).items[2].n
                THEN check.result = is_action_safe(WithoutParam(check.action, i), check.devices)
                ELSE check.result = "unsafe"

\* the upper bound itself is accepted
C21_Witness ==
    /\ check.phase = "done"
    /\ check.action = ActionCommand(AcId, "set", << <<"p", IntV(30)>> >>)
    /\ check.devices =
          <<DeviceState(AcId, TRUE,
                        Caps({"functions", "parameters"}, <<"on", "set">>, << <<"p", RangeSpec>> >>))>>
    /\ check.result = "safe"

IsStringEnum(spec) ==
    /\ spec.t = "list" /\ Len(spec.items) > 0
    /\ \A k \in 1..Len(spec.items) : spec.items[k].t = "str"

Unsupported(spec) == ~IsRangeShape(spec) /\ ~IsEnumShape(spec) /\ spec # TokenSpec(HHMM)

\* C23: a parameter that the capability spec of the device does not declare, or
\* declares with a spec of an unsupported shape, does not change the verdict:
\* the verdict is that of the action without the parameter.
C23_SoftFail ==
    check.phase = "done" =>
        \A i \in 1..Len(check.action.params) :
            (~KnownDevice \/ ~Declared(i) \/ Unsupported(SpecOf(i)))
            => check.result = is_action_safe(WithoutParam(check.action, i), check.devices)

\* one parameter declared with a nested spec, one not declared: the action is safe
C23_Witness ==
    /\ check.phase = "done"
    /\ check.action = ActionCommand(AcId, "set", << <<"p", IntV(31)>>, <<"q", StrV(Cool)>> >>)
    /\ check.devices =
          <<DeviceState(AcId, TRUE,
                        Caps({"functions", "parameters"}, <<"on", "set">>, << <<"p", NestedSpec>> >>))>>
    /\ check.result = "safe"

\* C4: an action whose device id is not among the supplied device states is
\* never safe, whatever its command and parameters.
C4_UnknownDeviceUnsafe ==
    (/\ check.phase = "done"
     /\ \A i \in 1..Len(check.devices) : check.devices[i].id # check.action.device_id)
    => check.result = "unsafe"

C4_Witness ==
    /\ check.phase = "done"
    /\ check.action.device_id = NearMissId
    /\ check.action.command = "set"
    /\ check.action.params = << <<"p", IntV(16)>> >>
    /\ Len(check.devices) = 2
    /\ \A i \in 1..Len(check.devices) : check.devices[i].id # check.action.device_id
    /\ check.devices[2].capabilities =
           Caps({"functions", "parameters"}, <<"on", "set">>, << <<"p", RangeSpec>> >>)
    /\ check.result = "unsafe"

(***************************************************************************)
(* Properties of the budget                                                *)
(***************************************************************************)
\* C5: with no allowed call before, allow() returns true and records the clock
\* reading; less than the cooldown after the last allowed call it returns false
\* and leaves the timestamp as it was; at least the cooldown after the last
\* allowed call it returns true and records the clock reading.
C5_AllowCooldown ==
    allowObs.called =>
        IF allowObs.grantedBefore = NoTime
        THEN allowObs.allowed /\ last_suggestion_time = At(allowObs.now)
        ELSE IF allowObs.now - TimeOf(allowObs.grantedBefore) < cooldown_threshold
        THEN ~allowObs.allowed /\ last_suggestion_time = allowObs.before
        ELSE allowObs.allowed /\ last_suggestion_time = At(allowObs.now)

\* C16: a budget constructed with cooldown 0 allows every call, whatever the
\* sequence of calls.
C16_ZeroCooldownAlwaysAllows ==
    (allowObs.called /\ cooldown_threshold = 0) => allowObs.allowed

\* after a call of allow(): the timestamp is the clock reading of the latest
\* allowed call, it is not before the timestamp the call found, and an allowed
\* call is at least the cooldown after the allowed call before it
TimestampOfLatestGrant ==
    /\ last_suggestion_time = lastGranted
    /\ allowObs.called =>
          /\ allowObs.allowed => last_suggestion_time = At(allowObs.now)
          /\ ~allowObs.allowed => last_suggestion_time = allowObs.before
          /\ allowObs.before # NoTime =>
                TimeOf(last_suggestion_time) >= TimeOf(allowObs.before)
          /\ (allowObs.allowed /\ allowObs.grantedBefore # NoTime) =>
                allowObs.now - TimeOf(allowObs.grantedBefore) >= cooldown_threshold

\* a step that changes the timestamp is an allowed call, and does not set it back
TimestampStep ==
    last_suggestion_time' # last_suggestion_time =>
        /\ allowObs'.called /\ allowObs'.allowed
        /\ last_suggestion_time' = At(clock)
        /\ last_suggestion_time # NoTime =>
              TimeOf(last_suggestion_time') >= TimeOf(last_suggestion_time)

\* C28: over any sequence of allow() calls on one budget, the recorded timestamp
\* changes only on an allowed call, equals the clock reading of the most recent
\* allowed call, never decreases, and two successive allowed calls are at least
\* the cooldown apart.
C28_TimestampMonotone == []TimestampOfLatestGrant /\ [][TimestampStep]_vars

\* a call made after the clock was set back is denied and leaves the timestamp
C28_Witness ==
    /\ allowObs.called
    /\ ~allowObs.allowed
    /\ allowObs.before # NoTime
    /\ allowObs.now < TimeOf(allowObs.before)
    /\ last_suggestion_time = allowObs.before

\* a call exactly one cooldown after the allowed call before it
C5_Witness ==
    /\ allowObs.called
    /\ cooldown_threshold = DefaultCooldown
    /\ allowObs.grantedBefore # NoTime
    /\ allowObs.now - TimeOf(allowObs.grantedBefore) = cooldown_threshold
    /\ allowObs.allowed
    /\ last_suggestion_time = At(allowObs.now)

====
